---- MODULE Spec2Model ----
(***************************************************************************)
(* Model of the built-in AI chat kernel: the ChatSession relay (send) in   *)
(* its four source variants and the BuiltInChatKernel protocol adapter.    *)
(*                                                                         *)
(* Text is a sequence of characters.  One request is handled at a time     *)
(* (the host serializes requests); every await of send is a position of    *)
(* pc, and the environment (availability query, session creation, stream)  *)
(* resolves or rejects each await nondeterministically.                    *)
(***************************************************************************)
EXTENDS Integers, Sequences, FiniteSets, TLC

\* ---------------------------------------------------------------- bounds
MaxRequests == 2
MaxChunks == 3
MaxText == 2
MaxCursor == 1

Alphabet == {"a", "b"}

\* ------------------------------------------------------------- constants
MsgNoCapability == "Browser does not support Chrome built-in AI."
MsgModelUnavailable == "Chrome built-in AI model is not available."

Undefined == "undefined"
NoSession == 0

\* The ChatSession classes of the repository.
\*   delta      kernel.ts:20-71, federation.ts:95-157  reader, reply += value
\*   cumReader  ChatSession.ts (part_001:23-91)        reader, slice(previousLength)
\*   cumIter    kernel.ts:214-278, 294-352             for await, slice(previousLength)
\*   streamText part_001:109-152                       builtInAI() + streamText()
Relays == {"delta", "cumReader", "cumIter", "streamText"}

\* The caller of send: the kernel's executeRequest (whose ChatSession is the
\* delta class defined in the same file) or a direct caller of send.
Hosts == {"kernel", "direct"}

\* Stream conventions of the capability: each increment is the new text only,
\* or the full reply so far.
Modes == {"delta", "cumulative"}

\* ------------------------------------------------------------------ text
RECURSIVE StringsUpTo(_)
StringsUpTo(n) ==
  IF n = 0 THEN {<<>>}
  ELSE LET S == StringsUpTo(n - 1)
       IN S \cup {Append(s, c) : s \in {t \in S : Len(t) = n - 1}, c \in Alphabet}

\* String.prototype.slice(start) for 0 <= start.
Slice(s, start) == IF start >= Len(s) THEN <<>> ELSE SubSeq(s, start + 1, Len(s))

RECURSIVE Concat(_)
Concat(ss) == IF ss = <<>> THEN <<>> ELSE Head(ss) \o Concat(Tail(ss))

NonEmpty(s) == s # <<>>

\* ---------------------------------------------------------------- errors
\* A thrown value: an Error object with a message, or a bare value whose
\* String() is text.
ErrorOf(m) == [message |-> m, text |-> "Error: " \o m]
BareValue(t) == [message |-> Undefined, text |-> t]

QueryFailures == {ErrorOf("availability failed")}
CreateFailures == {ErrorOf("create failed")}
StreamFailures == {ErrorOf("stream failed"), BareValue("aborted")}
CallbackFailures == {ErrorOf("callback failed")}

\* A slip that reports String(err) whatever the thrown value.
ErrMessage_StringOnly(err) == err.text

\* err?.message ?? String(err)
ErrMessage(err) == IF err.message # Undefined THEN err.message ELSE err.text

\* ----------------------------------------------------------------- state
VARIABLES
  relay,            \* which ChatSession class this instance is
  host,             \* who calls send
  session,          \* ChatSession.session: NoSession (null) or a handle id
  createCalls,      \* invocations of the creation operation, all sends
  sends,            \* calls of send on this instance
  executionCount,   \* BaseKernel.executionCount, set by the host per request
  pc,               \* position of the active send: idle, availability, create, read
  prompt,           \* the prompt of the active send
  availability,     \* the send's local availability ("none" before the query)
  mode,             \* convention of the stream being read
  produced,         \* text the model has produced on this stream
  values,           \* values read from the stream, in order
  reply,            \* send's local reply
  previousLength,   \* send's local previousLength
  deltas,           \* arguments of the onChunk calls, in order
  events,           \* events the adapter published for this request, in order
  response,         \* executeRequest's return value
  result,           \* how send ended: returned reply or thrown value
  reader,           \* stream reader: none, held, released
  releases,         \* releaseLock calls of this send
  fault,            \* what failed in this send ("none" when nothing did)
  sendQueries,      \* availability queries of this send
  sendCreates,      \* creation invocations of this send
  sendSubmits,      \* prompts submitted by this send
  monitor,          \* whether the last creation was passed a progress monitor
  sessionAtStart,   \* the handle when this send began
  capability,       \* whether the ambient capability existed when this send began
  prevResult,       \* how the previous send ended: none, returned, threw
  prevResponse,     \* response of the previous request
  prevAvailability, \* availability the previous send observed
  lastCall,         \* latest fixed-handler call: handler, content, response
  prevCall,         \* the fixed-handler call before it
  calls             \* sends the caller started without awaiting the one before

relayVars == <<relay, host, session, createCalls, sends, executionCount>>
sendVars == <<pc, prompt, availability, mode, produced, values, reply,
              previousLength, deltas, reader, releases, fault, sendQueries,
              sendCreates, sendSubmits, monitor, sessionAtStart, capability,
              result, prevResult>>
adapterVars == <<events, response, prevResponse, prevAvailability>>
handlerVars == <<lastCall, prevCall>>
vars == <<relayVars, sendVars, adapterVars, handlerVars, calls>>

NoResponse == [status |-> "none"]
NoResult == [kind |-> "none"]
NoCall == [handler |-> "none"]

\* The overlapping calls of send a caller may make on one relay.
Callers == {1, 2}

\* The locals of an overlapping call that has not started.
NoSend ==
  [pc |-> "idle", availability |-> "none", monitor |-> FALSE, pending |-> 0,
   used |-> 0, reads |-> 0, reader |-> "none", outcome |-> "none"]

Init ==
  /\ host \in Hosts
  /\ relay \in IF host = "kernel" THEN {"delta"} ELSE Relays
  /\ session = NoSession
  /\ createCalls = 0
  /\ sends = 0
  /\ executionCount = 0
  /\ pc = "idle"
  /\ prompt = <<>>
  /\ availability = "none"
  /\ mode = "none"
  /\ produced = <<>>
  /\ values = <<>>
  /\ reply = <<>>
  /\ previousLength = 0
  /\ deltas = <<>>
  /\ events = <<>>
  /\ response = NoResponse
  /\ result = NoResult
  /\ reader = "none"
  /\ releases = 0
  /\ fault = "none"
  /\ sendQueries = 0
  /\ sendCreates = 0
  /\ sendSubmits = 0
  /\ monitor = FALSE
  /\ sessionAtStart = NoSession
  /\ capability = TRUE
  /\ prevResult = "none"
  /\ prevResponse = NoResponse
  /\ prevAvailability = "none"
  /\ lastCall = NoCall
  /\ prevCall = NoCall
  /\ calls = [i \in Callers |-> NoSend]

\* ----------------------------------------------------- relay, per class
\* Values the availability query can answer.
AvailabilityValues(r) ==
  IF r = "cumIter" THEN {"no", "readily", "after-download"}
  ELSE {"unavailable", "available", "downloadable", "downloading"}

AllAvailabilityValues == UNION {AvailabilityValues(r) : r \in Relays}

\* Whether send tests for the ambient capability before the query.
ChecksCapability(r) == r # "streamText"

\* A slip that never takes the unavailable branch.
IsUnavailable_Never(r, a) == FALSE

\* A slip that consults the handle first and skips the test when one exists.
IsUnavailable_UnlessHandle(r, a) ==
  /\ session = NoSession \/ r = "streamText"
  /\ IF r = "cumIter" THEN a = "no" ELSE a = "unavailable"

\* availability === "unavailable" (capabilities.available === "no")
IsUnavailable(r, a) == IF r = "cumIter" THEN a = "no" ELSE a = "unavailable"

UnavailableMessage(r) ==
  IF r = "streamText" THEN MsgNoCapability ELSE MsgModelUnavailable

\* Whether the creation is passed a download-progress observer.
WithMonitor(r, a) ==
  IF r = "cumIter" THEN a = "after-download"
  ELSE a \in {"downloadable", "downloading"}

\* A slip that creates a session whether or not one exists.
NeedsCreate_Always(r, a, s) == IF r = "streamText" THEN WithMonitor(r, a) ELSE TRUE

\* Whether send invokes the creation operation.
NeedsCreate(r, a, s) ==
  IF r = "streamText" THEN WithMonitor(r, a) ELSE s = NoSession

\* Whether send takes an explicit reader on the stream.
HoldsReader(r) == r \in {"delta", "cumReader"}

Slices(r) == r \in {"cumReader", "cumIter"}

NewContent(r, v, prevLen) == IF Slices(r) THEN Slice(v, prevLen) ELSE v

NextReply(r, rep, v) == IF Slices(r) THEN v ELSE rep \o v

NextPreviousLength(r, v, prevLen) == IF Slices(r) THEN Len(v) ELSE prevLen

\* A slip that drops the test of the chunk: if (onChunk) onChunk(value).
CallsOnChunk_Unguarded(r, nc) == TRUE

\* if (onChunk && value): whether the callback is invoked for the chunk nc.
CallsOnChunk(r, nc) == IF r = "streamText" THEN TRUE ELSE NonEmpty(nc)

\* finally { reader.releaseLock() }
ReleaseReader ==
  IF reader = "held"
  THEN reader' = "released" /\ releases' = releases + 1
  ELSE UNCHANGED <<reader, releases>>

\* --------------------------------------------------- adapter, Execute
StdoutEvent(chunk) == [type |-> "stream", name |-> "stdout", text |-> chunk]

ErrorEvent(message) ==
  [type |-> "error", ename |-> "Error", evalue |-> message, traceback |-> <<>>]

OkResponse(count) ==
  [status |-> "ok", execution_count |-> count, payload |-> <<>>,
   user_expressions |-> <<>>]

ErrorResponse(count, message) ==
  [status |-> "error", execution_count |-> count, ename |-> "Error",
   evalue |-> message, traceback |-> <<>>]

\* String(content.code ?? "")
CodeOf(content) == IF "code" \in DOMAIN content THEN content.code ELSE <<>>

\* The callback executeRequest hands to send.
OnChunk(evs, chunk) == Append(evs, StdoutEvent(chunk))

\* A slip that returns the error response without publishing the error.
Catch_NoPublish(evs, err) ==
  /\ events' = evs
  /\ response' = ErrorResponse(executionCount', ErrMessage(err))

\* The catch block of executeRequest, after the events evs.
Catch(evs, err) ==
  /\ events' = Append(evs, ErrorEvent(ErrMessage(err)))
  /\ response' = ErrorResponse(executionCount', ErrMessage(err))

\* The return after the awaited send.
ReturnOk(evs) ==
  /\ events' = evs
  /\ response' = OkResponse(executionCount')

\* send ends with res; under the kernel executeRequest completes with it.
Finish(evs, res) ==
  /\ pc' = "idle"
  /\ result' = res
  /\ IF host = "kernel"
     THEN IF res.kind = "threw" THEN Catch(evs, res.err) ELSE ReturnOk(evs)
     ELSE events' = evs /\ response' = NoResponse

Threw(err) == [kind |-> "threw", err |-> err]
Returned(text) == [kind |-> "returned", reply |-> text]

\* --------------------------------------------------------------- send
\* The locals of a new call of send.
ResetSend(p) ==
  /\ sends' = sends + 1
  /\ prompt' = p
  /\ mode' = "none"
  /\ produced' = <<>>
  /\ values' = <<>>
  /\ reply' = <<>>
  /\ previousLength' = 0
  /\ deltas' = <<>>
  /\ reader' = "none"
  /\ releases' = 0
  /\ sendCreates' = 0
  /\ sendSubmits' = 0
  /\ sessionAtStart' = session
  /\ prevResult' = result.kind
  /\ UNCHANGED <<relay, host, session, createCalls, monitor>>

\* throw new Error("Browser does not support Chrome built-in AI.")
ThrowNoCapability ==
  /\ availability' = "absent"
  /\ fault' = "absent"
  /\ sendQueries' = 0
  /\ Finish(<<>>, Threw(ErrorOf(MsgNoCapability)))

\* await LanguageModel.availability()
QueryAvailability ==
  /\ availability' = "none"
  /\ fault' = "none"
  /\ sendQueries' = 1
  /\ pc' = "availability"
  /\ result' = NoResult
  /\ events' = <<>>
  /\ response' = NoResponse

\* A slip that keeps failing once a send has failed.
SendStart_Sticky(p, present) ==
  /\ ResetSend(p)
  /\ IF (ChecksCapability(relay) /\ ~present) \/ result.kind = "threw"
     THEN ThrowNoCapability
     ELSE QueryAvailability

\* send up to its first await: the capability test and the availability query.
SendStart(p, present) ==
  /\ ResetSend(p)
  /\ IF ChecksCapability(relay) /\ ~present
     THEN ThrowNoCapability
     ELSE QueryAvailability

\* executeRequest(content), called by the host with the counter advanced.
ExecuteRequest(content, present) ==
  /\ host = "kernel"
  /\ pc = "idle"
  /\ sends < MaxRequests
  /\ executionCount' = executionCount + 1
  /\ prevResponse' = response
  /\ prevAvailability' = availability
  /\ capability' = present
  /\ SendStart(CodeOf(content), present)
  /\ UNCHANGED <<handlerVars, calls>>

\* send(prompt, onChunk) called directly.
SendDirect(p, present) ==
  /\ host = "direct"
  /\ pc = "idle"
  /\ sends < MaxRequests
  /\ UNCHANGED <<executionCount, prevResponse, prevAvailability, handlerVars,
                 calls>>
  /\ capability' = present
  /\ SendStart(p, present)

\* The conventions the stream of a relay may follow: promptStreaming has
\* yielded either, the textStream of streamText yields deltas.
StreamModes(r) == IF r = "streamText" THEN {"delta"} ELSE Modes

\* session.promptStreaming(prompt) and stream.getReader()
Submit ==
  /\ pc' = "read"
  /\ sendSubmits' = sendSubmits + 1
  /\ mode' \in StreamModes(relay)
  /\ reader' = IF HoldsReader(relay) THEN "held" ELSE "none"

\* Variables no step after the start of a send changes.
Frame == UNCHANGED <<relay, host, sends, executionCount, prompt, sessionAtStart,
                     capability, prevResult, prevResponse, prevAvailability,
                     handlerVars, calls>>

\* The availability query answers a.
AvailabilityResolves(a) ==
  /\ pc = "availability"
  /\ Frame
  /\ a \in AvailabilityValues(relay)
  /\ availability' = a
  /\ UNCHANGED <<session, produced, values, reply, previousLength, deltas,
                 releases, sendQueries>>
  /\ IF IsUnavailable(relay, a)
     THEN /\ fault' = "unavailable"
          /\ Finish(events, Threw(ErrorOf(UnavailableMessage(relay))))
          /\ UNCHANGED <<createCalls, sendCreates, sendSubmits, monitor, mode, reader>>
     ELSE IF NeedsCreate(relay, a, session)
     THEN /\ pc' = "create"
          /\ createCalls' = createCalls + 1
          /\ sendCreates' = sendCreates + 1
          /\ monitor' = WithMonitor(relay, a)
          /\ UNCHANGED <<fault, result, events, response, sendSubmits, mode, reader>>
     ELSE /\ Submit
          /\ UNCHANGED <<fault, result, events, response, createCalls,
                         sendCreates, monitor>>

\* The availability query rejects.
AvailabilityRejects(err) ==
  /\ pc = "availability"
  /\ Frame
  /\ fault' = "query"
  /\ Finish(events, Threw(err))
  /\ UNCHANGED <<session, createCalls, availability, mode, produced, values,
                 reply, previousLength, deltas, reader, releases, sendQueries,
                 sendCreates, sendSubmits, monitor>>

\* The creation resolves with a new handle; send stores it and submits.
CreateResolves ==
  /\ pc = "create"
  /\ Frame
  /\ session' = IF relay = "streamText" THEN session ELSE createCalls
  /\ Submit
  /\ UNCHANGED <<createCalls, availability, produced, values, reply,
                 previousLength, deltas, releases, fault, sendQueries,
                 sendCreates, monitor, result, events, response>>

\* A slip that answers a rejected creation by creating again, with the
\* progress monitor switched, until a creation resolves.
CreateRejects_RetryForever(err) ==
  /\ pc = "create"
  /\ Frame
  /\ monitor' = ~monitor
  /\ UNCHANGED <<pc, result, events, response, fault, createCalls, sendCreates,
                 session, availability, mode, produced, values, reply,
                 previousLength, deltas, reader, releases, sendQueries,
                 sendSubmits>>

\* A slip that invokes the creation a second time when the first rejects.
CreateRejects_RetryOnce(err) ==
  /\ pc = "create"
  /\ Frame
  /\ IF sendCreates < 2
     THEN /\ createCalls' = createCalls + 1
          /\ sendCreates' = sendCreates + 1
          /\ UNCHANGED <<pc, result, events, response, fault>>
     ELSE /\ fault' = "create"
          /\ Finish(events, Threw(err))
          /\ UNCHANGED <<createCalls, sendCreates>>
  /\ UNCHANGED <<session, availability, mode, produced, values, reply,
                 previousLength, deltas, reader, releases, sendQueries,
                 sendSubmits, monitor>>

\* The creation rejects.
CreateRejects(err) ==
  /\ pc = "create"
  /\ Frame
  /\ fault' = "create"
  /\ Finish(events, Threw(err))
  /\ UNCHANGED <<session, createCalls, availability, mode, produced, values,
                 reply, previousLength, deltas, reader, releases, sendQueries,
                 sendCreates, sendSubmits, monitor>>

\* The value the stream yields when the model produces the new text n.
StreamValue(m, sofar, n) == IF m = "cumulative" THEN sofar \o n ELSE n

\* One iteration of the read loop on a value; the callback returns.
StreamChunk(n) ==
  /\ pc = "read"
  /\ Frame
  /\ Len(values) < MaxChunks
  /\ Len(produced) + Len(n) <= MaxText
  /\ LET v == StreamValue(mode, produced, n)
         nc == NewContent(relay, v, previousLength)
     IN /\ produced' = produced \o n
        /\ values' = Append(values, v)
        /\ reply' = NextReply(relay, reply, v)
        /\ previousLength' = NextPreviousLength(relay, v, previousLength)
        /\ IF CallsOnChunk(relay, nc)
           THEN /\ deltas' = Append(deltas, nc)
                /\ events' = IF host = "kernel" THEN OnChunk(events, nc) ELSE events
           ELSE UNCHANGED <<deltas, events>>
  /\ UNCHANGED <<session, createCalls, pc, availability, mode, reader, releases,
                 fault, sendQueries, sendCreates, sendSubmits, monitor, result,
                 response>>

\* One iteration of the read loop in which the caller's callback throws.
StreamChunkCallbackThrows(n, err) ==
  /\ pc = "read"
  /\ Frame
  /\ host = "direct"
  /\ Len(values) < MaxChunks
  /\ Len(produced) + Len(n) <= MaxText
  /\ LET v == StreamValue(mode, produced, n)
         nc == NewContent(relay, v, previousLength)
     IN /\ CallsOnChunk(relay, nc)
        /\ produced' = produced \o n
        /\ values' = Append(values, v)
        /\ reply' = NextReply(relay, reply, v)
        /\ previousLength' = NextPreviousLength(relay, v, previousLength)
        /\ deltas' = Append(deltas, nc)
  /\ ReleaseReader
  /\ fault' = "callback"
  /\ Finish(events, Threw(err))
  /\ UNCHANGED <<session, createCalls, availability, mode, sendQueries,
                 sendCreates, sendSubmits, monitor>>

\* The stream is exhausted: release the reader and return the reply.
StreamDone ==
  /\ pc = "read"
  /\ Frame
  /\ ReleaseReader
  /\ Finish(events, Returned(reply))
  /\ UNCHANGED <<session, createCalls, availability, mode, produced, values,
                 reply, previousLength, deltas, fault, sendQueries, sendCreates,
                 sendSubmits, monitor>>

\* A slip that releases the reader only after the loop, with no finally.
StreamFails_NoFinally(err) ==
  /\ pc = "read"
  /\ Frame
  /\ fault' = "read"
  /\ Finish(events, Threw(err))
  /\ UNCHANGED <<session, createCalls, availability, mode, produced, values,
                 reply, previousLength, deltas, sendQueries, sendCreates,
                 sendSubmits, monitor, reader, releases>>

\* A read rejects: release the reader and rethrow.
StreamFails(err) ==
  /\ pc = "read"
  /\ Frame
  /\ ReleaseReader
  /\ fault' = "read"
  /\ Finish(events, Threw(err))
  /\ UNCHANGED <<session, createCalls, availability, mode, produced, values,
                 reply, previousLength, deltas, sendQueries, sendCreates,
                 sendSubmits, monitor>>

\* -------------------------------------------------------------- inputs
Prompts == {<<>>, <<"a">>}
ExecuteContents == [code : {<<"a">>}] \cup [silent : {FALSE}]

Next ==
  \/ \E c \in ExecuteContents, present \in BOOLEAN : ExecuteRequest(c, present)
  \/ \E p \in Prompts, present \in BOOLEAN : SendDirect(p, present)
  \/ \E a \in AllAvailabilityValues : AvailabilityResolves(a)
  \/ \E e \in QueryFailures : AvailabilityRejects(e)
  \/ CreateResolves
  \/ \E e \in CreateFailures : CreateRejects(e)
  \/ \E n \in StringsUpTo(MaxText) : StreamChunk(n)
  \/ \E n \in StringsUpTo(MaxText), e \in CallbackFailures : StreamChunkCallbackThrows(n, e)
  \/ StreamDone
  \/ \E e \in StreamFailures : StreamFails(e)

Spec == Init /\ [][Next]_vars

\* An await of the active send completes or fails.
AwaitCompletes ==
  \/ \E a \in AllAvailabilityValues : AvailabilityResolves(a)
  \/ \E e \in QueryFailures : AvailabilityRejects(e)
  \/ CreateResolves
  \/ \E e \in CreateFailures : CreateRejects(e)
  \/ \E n \in StringsUpTo(MaxText) : StreamChunk(n)
  \/ \E n \in StringsUpTo(MaxText), e \in CallbackFailures : StreamChunkCallbackThrows(n, e)
  \/ StreamDone
  \/ \E e \in StreamFailures : StreamFails(e)

\* The kernel in an environment where no await stays pending for ever: the
\* availability query, the creation and each read of the (finite) stream
\* eventually resolve or reject.
SpecFair == Spec /\ WF_vars(AwaitCompletes)

\* ---------------------------------------------------- overlapping sends
\* The same send, called again on the relay before an earlier call has
\* returned.  Each call has its own locals in calls[i]; this.session and the
\* creation operation are shared.  The text of the stream is handled as in
\* StreamChunk and is not repeated: a call only counts its reads.
OthersUnchanged ==
  UNCHANGED <<relay, host, sends, executionCount, sendVars, adapterVars,
              handlerVars>>

\* send up to its first await.
OverlapSendStart(i, present) ==
  /\ host = "direct"
  /\ calls[i].pc = "idle"
  /\ calls' = [calls EXCEPT ![i] =
       IF ChecksCapability(relay) /\ ~present
       THEN [@ EXCEPT !.pc = "done", !.availability = "absent", !.outcome = "threw"]
       ELSE [@ EXCEPT !.pc = "availability"]]
  /\ UNCHANGED <<session, createCalls>>
  /\ OthersUnchanged

\* The availability query of call i answers a.
OverlapAvailabilityResolves(i, a) ==
  /\ calls[i].pc = "availability"
  /\ a \in AvailabilityValues(relay)
  /\ OthersUnchanged
  /\ IF IsUnavailable(relay, a)
     THEN /\ calls' = [calls EXCEPT ![i] =
                [@ EXCEPT !.pc = "done", !.availability = a, !.outcome = "threw"]]
          /\ UNCHANGED <<session, createCalls>>
     ELSE IF NeedsCreate(relay, a, session)
     THEN /\ createCalls' = createCalls + 1
          /\ calls' = [calls EXCEPT ![i] =
                [@ EXCEPT !.pc = "create", !.availability = a,
                          !.monitor = WithMonitor(relay, a),
                          !.pending = createCalls + 1]]
          /\ UNCHANGED session
     ELSE /\ calls' = [calls EXCEPT ![i] =
                [@ EXCEPT !.pc = "read", !.availability = a, !.used = session,
                          !.reader = IF HoldsReader(relay) THEN "held" ELSE "none"]]
          /\ UNCHANGED <<session, createCalls>>

\* The availability query of call i rejects.
OverlapAvailabilityRejects(i) ==
  /\ calls[i].pc = "availability"
  /\ calls' = [calls EXCEPT ![i] = [@ EXCEPT !.pc = "done", !.outcome = "threw"]]
  /\ UNCHANGED <<session, createCalls>>
  /\ OthersUnchanged

\* A slip-free variant that would keep the first handle: this.session ??= created.
OverlapCreateResolves_KeepFirst(i) ==
  /\ calls[i].pc = "create"
  /\ session' = IF relay = "streamText" \/ session # NoSession
                THEN session ELSE calls[i].pending
  /\ calls' = [calls EXCEPT ![i] =
       [@ EXCEPT !.pc = "read", !.used = session',
                 !.reader = IF HoldsReader(relay) THEN "held" ELSE "none"]]
  /\ UNCHANGED createCalls
  /\ OthersUnchanged

\* The creation of call i resolves: this.session = created, then
\* this.session.promptStreaming(prompt).
OverlapCreateResolves(i) ==
  /\ calls[i].pc = "create"
  /\ session' = IF relay = "streamText" THEN session ELSE calls[i].pending
  /\ calls' = [calls EXCEPT ![i] =
       [@ EXCEPT !.pc = "read", !.used = session',
                 !.reader = IF HoldsReader(relay) THEN "held" ELSE "none"]]
  /\ UNCHANGED createCalls
  /\ OthersUnchanged

\* The creation of call i rejects.
OverlapCreateRejects(i) ==
  /\ calls[i].pc = "create"
  /\ calls' = [calls EXCEPT ![i] = [@ EXCEPT !.pc = "done", !.outcome = "threw"]]
  /\ UNCHANGED <<session, createCalls>>
  /\ OthersUnchanged

\* Call i reads a value.
OverlapStreamChunk(i) ==
  /\ calls[i].pc = "read"
  /\ calls[i].reads < MaxChunks
  /\ calls' = [calls EXCEPT ![i] = [@ EXCEPT !.reads = @ + 1]]
  /\ UNCHANGED <<session, createCalls>>
  /\ OthersUnchanged

\* The stream of call i ends (returned) or a read of it rejects (threw).
OverlapStreamEnds(i, how) ==
  /\ calls[i].pc = "read"
  /\ calls' = [calls EXCEPT ![i] =
       [@ EXCEPT !.pc = "done", !.outcome = how,
                 !.reader = IF @ = "held" THEN "released" ELSE @]]
  /\ UNCHANGED <<session, createCalls>>
  /\ OthersUnchanged

NextOverlap ==
  \/ \E i \in Callers, present \in BOOLEAN : OverlapSendStart(i, present)
  \/ \E i \in Callers, a \in AllAvailabilityValues : OverlapAvailabilityResolves(i, a)
  \/ \E i \in Callers : OverlapAvailabilityRejects(i)
  \/ \E i \in Callers : OverlapCreateResolves(i)
  \/ \E i \in Callers : OverlapCreateRejects(i)
  \/ \E i \in Callers : OverlapStreamChunk(i)
  \/ \E i \in Callers, how \in {"returned", "threw"} : OverlapStreamEnds(i, how)

\* The relay under a caller that does not serialize its sends.
SpecOverlap == Init /\ [][NextOverlap]_vars

\* ------------------------------------------------------ fixed handlers
KernelInfoReply ==
  [status |-> "ok", protocol_version |-> "5.3",
   implementation |-> "built-in-chat-kernel",
   implementation_version |-> "0.2.6dev6",
   language_info |-> [name |-> "markdown", version |-> "0.0.0",
                      mimetype |-> "text/markdown", file_extension |-> ".md"],
   banner |-> "Chrome Built-in AI chat kernel", help_links |-> <<>>]

\* content.cursor_pos ?? 0
CursorPosOf(content) ==
  IF "cursor_pos" \in DOMAIN content THEN content.cursor_pos ELSE 0

CompleteReply(content) ==
  [status |-> "ok", matches |-> <<>>, cursor_start |-> CursorPosOf(content),
   cursor_end |-> CursorPosOf(content), metadata |-> <<>>]

\* A slip that reports the inspected code back.
InspectReply_Echo(content) ==
  [status |-> "ok", found |-> FALSE, data |-> content.code, metadata |-> <<>>]

InspectReply(content) ==
  [status |-> "ok", found |-> FALSE, data |-> <<>>, metadata |-> <<>>]

IsCompleteReply(content) == [status |-> "complete", indent |-> <<>>]

CommInfoReply(content) == [status |-> "ok", comms |-> <<>>]

HistoryReply(content) == [status |-> "ok", history |-> <<>>]

ShutdownReply(content) == [status |-> "ok", restart |-> FALSE]

\* A handler call as the host sees it: the request and the response.
Call(name, content, resp) ==
  [handler |-> name, content |-> content, response |-> resp]

\* kernelInfoRequest takes no content.
NoContent == [code |-> <<>>]

KernelInfoRequest ==
  /\ prevCall' = lastCall
  /\ lastCall' = Call("kernelInfo", NoContent, KernelInfoReply)
  /\ UNCHANGED <<relayVars, sendVars, adapterVars, calls>>

CompleteRequest(content) ==
  /\ prevCall' = lastCall
  /\ lastCall' = Call("complete", content, CompleteReply(content))
  /\ UNCHANGED <<relayVars, sendVars, adapterVars, calls>>

InspectRequest(content) ==
  /\ prevCall' = lastCall
  /\ lastCall' = Call("inspect", content, InspectReply(content))
  /\ UNCHANGED <<relayVars, sendVars, adapterVars, calls>>

IsCompleteRequest(content) ==
  /\ prevCall' = lastCall
  /\ lastCall' = Call("isComplete", content, IsCompleteReply(content))
  /\ UNCHANGED <<relayVars, sendVars, adapterVars, calls>>

CommInfoRequest(content) ==
  /\ prevCall' = lastCall
  /\ lastCall' = Call("commInfo", content, CommInfoReply(content))
  /\ UNCHANGED <<relayVars, sendVars, adapterVars, calls>>

HistoryRequest(content) ==
  /\ prevCall' = lastCall
  /\ lastCall' = Call("history", content, HistoryReply(content))
  /\ UNCHANGED <<relayVars, sendVars, adapterVars, calls>>

ShutdownRequest(content) ==
  /\ prevCall' = lastCall
  /\ lastCall' = Call("shutdown", content, ShutdownReply(content))
  /\ UNCHANGED <<relayVars, sendVars, adapterVars, calls>>

Codes == {<<>>, <<"a">>}
HandlerContents == [code : Codes] \cup [code : Codes, cursor_pos : 0..MaxCursor]

NextHandlers ==
  \/ KernelInfoRequest
  \/ \E c \in HandlerContents : CompleteRequest(c)
  \/ \E c \in HandlerContents : InspectRequest(c)
  \/ \E c \in HandlerContents : IsCompleteRequest(c)
  \/ \E c \in HandlerContents : CommInfoRequest(c)
  \/ \E c \in HandlerContents : HistoryRequest(c)
  \/ \E c \in HandlerContents : ShutdownRequest(c)

\* The kernel serving only the fixed handlers.
SpecHandlers == Init /\ [][NextHandlers]_vars

\* ================================================================ claims
ExecuteDone == host = "kernel" /\ pc = "idle" /\ sends > 0
ExecuteSucceeded == ExecuteDone /\ result.kind = "returned"
ExecuteFailed == ExecuteDone /\ result.kind = "threw"

IsErrorEvent(e) == e.type = "error"
IsStreamEvent(e) == e.type = "stream"

\* The stdout events for the non-empty values among vs, in order.
StdoutEventsOf(vs) ==
  LET ne == SelectSeq(vs, NonEmpty)
  IN [i \in 1..Len(ne) |-> [type |-> "stream", name |-> "stdout", text |-> ne[i]]]

\* C1: while an Execute reads the stream and when its send has returned, the
\* events published are exactly one stdout event per non-empty value the relay
\* delivered, in order of delivery; no response exists while events are still
\* being published; the response after a successful send has status ok and
\* the execution count the host holds for the request.
C1_ExecuteSuccessEvents ==
  /\ (host = "kernel" /\ pc = "read") =>
        /\ events = StdoutEventsOf(values)
        /\ response = NoResponse
  /\ ExecuteSucceeded =>
        /\ events = StdoutEventsOf(values)
        /\ deltas = SelectSeq(values, NonEmpty)
        /\ response.status = "ok"
        /\ response.execution_count = executionCount
        /\ executionCount = sends

\* A successful Execute that read an empty value between two different
\* non-empty ones.
C1_Witness ==
  /\ ExecuteSucceeded
  /\ Len(values) = 3
  /\ values[2] = <<>>
  /\ Len(events) = 2
  /\ events[1].text # events[2].text

\* The message of the failure f that ended the send with the thrown value err.
FailureMessage(f, err) ==
  CASE f = "absent" -> "Browser does not support Chrome built-in AI."
    [] f = "unavailable" -> "Chrome built-in AI model is not available."
    [] OTHER -> IF err.message = Undefined THEN err.text ELSE err.message

\* C2: after an Execute whose send failed, exactly one error event was
\* published, with name "Error", the failure's message and an empty traceback,
\* and the response has status error, that message and an empty traceback.
C2_ExecuteFailureError ==
  ExecuteFailed =>
    LET m == FailureMessage(fault, result.err)
        errs == SelectSeq(events, IsErrorEvent)
    IN /\ fault # "none"
       /\ Len(errs) = 1
       /\ errs[1].ename = "Error"
       /\ errs[1].evalue = m
       /\ errs[1].traceback = <<>>
       /\ response.status = "error"
       /\ response.ename = "Error"
       /\ response.evalue = m
       /\ response.traceback = <<>>

\* An Execute whose stream failed with an Error after a delta was delivered.
C2_Witness ==
  /\ ExecuteFailed
  /\ fault = "read"
  /\ result.err.message = "stream failed"
  /\ Len(events) = 2

SendDone == pc = "idle" /\ sends > 0
SendReturned == SendDone /\ result.kind = "returned"
SendThrew == SendDone /\ result.kind = "threw"

\* C3: when send has returned, the concatenation of the onChunk arguments, in
\* call order, is the reply it returned, under either stream convention.
C3_DeltasConcatenateToReply ==
  SendReturned => Concat(deltas) = result.reply

\* The text each increment newly produced, recovered from the values of a
\* stream of convention m.
NewTexts(m, vs) ==
  [i \in 1..Len(vs) |->
     IF m = "cumulative" /\ i > 1 THEN Slice(vs[i], Len(vs[i - 1])) ELSE vs[i]]

\* C4: under either stream convention, the reply send returns is the full
\* text the model produced and the onChunk calls carry, in order, the text
\* newly produced by each increment that produced any.
C4_ToleratesBothConventions ==
  SendReturned =>
    /\ result.reply = produced
    /\ SelectSeq(deltas, NonEmpty) = SelectSeq(NewTexts(mode, values), NonEmpty)

\* C5: after two sends in sequence that both returned, the creation operation
\* was invoked at most once, and a send that began with a handle invoked no
\* creation and kept that handle.
C5_ProvisionedAtMostOnce ==
  /\ (SendReturned /\ sends = 2 /\ prevResult = "returned") => createCalls <= 1
  /\ sessionAtStart # NoSession => (sendCreates = 0 /\ session = sessionAtStart)

UnavailableValues == {"unavailable", "no"}

\* A send that met an absent or unavailable capability ended by throwing, with
\* no creation invoked, no prompt submitted and the handle as it was (unset
\* when it was unset).
NothingProvisioned ==
  /\ SendThrew
  /\ sendCreates = 0
  /\ sendSubmits = 0
  /\ reader = "none"
  /\ session = sessionAtStart

\* C6 as stated: whenever the capability is absent or the availability query
\* answers unavailable, send fails with the CapabilityUnavailable error and
\* provisions nothing.
C6_UnavailableIsCapabilityUnavailable ==
  (availability = "absent" \/ availability \in UnavailableValues) =>
    /\ NothingProvisioned
    /\ result.err = ErrorOf("Browser does not support Chrome built-in AI.")

\* C6 amended: an absent capability fails send with the CapabilityUnavailable
\* error; an availability answer of unavailable fails it with the
\* ModelUnavailable error (the streamText relay reports the
\* CapabilityUnavailable message there); in both cases nothing is provisioned.
C6_UnavailableFailsWithoutSession ==
  /\ availability = "absent" =>
       /\ NothingProvisioned
       /\ sendQueries = 0
       /\ result.err = ErrorOf("Browser does not support Chrome built-in AI.")
  /\ availability \in UnavailableValues =>
       /\ NothingProvisioned
       /\ result.err =
            IF relay = "streamText"
            THEN ErrorOf("Browser does not support Chrome built-in AI.")
            ELSE ErrorOf("Chrome built-in AI model is not available.")

\* A send on a relay with no handle that was answered unavailable.
C6_Witness ==
  /\ SendThrew
  /\ relay = "delta"
  /\ availability = "unavailable"
  /\ session = NoSession
  /\ prompt # <<>>

\* C7: the handle is written only by a resolved creation of a send that found
\* it unset, and once set it is never reset or replaced.
C7_HandleWrittenOnce ==
  [][/\ session # NoSession => session' = session
     /\ session' # session => (pc = "create" /\ sessionAtStart = NoSession)]_vars

\* A later send failed on a relay whose handle an earlier send had set.
C7_Witness ==
  /\ SendThrew
  /\ sends = 2
  /\ session # NoSession
  /\ sessionAtStart = session

\* C8: a reader is held only while the stream is read; a finished send holds
\* none, and a send that acquired one released it exactly once, whether it
\* returned or threw.
C8_ReaderReleasedOnEveryExit ==
  /\ reader = "held" => (pc = "read" /\ releases = 0)
  /\ reader = "released" => (pc = "idle" /\ releases = 1)
  /\ reader = "none" => releases = 0
  /\ (HoldsReader(relay) /\ sendSubmits > 0) => reader # "none"
  /\ SendDone => reader # "held"

\* A send whose read failed after a chunk, with the reader released.
C8_Witness ==
  /\ SendThrew
  /\ fault = "read"
  /\ Len(values) > 0
  /\ reader = "released"

FixedHandlers ==
  {"kernelInfo", "complete", "inspect", "isComplete", "commInfo", "history",
   "shutdown"}

SameHandlerTwice ==
  /\ lastCall.handler \in FixedHandlers
  /\ prevCall.handler = lastCall.handler

\* C9 as stated: two successive calls of the same fixed handler return equal
\* responses whatever their contents.
C9_FixedHandlersIgnoreInput ==
  SameHandlerTwice => lastCall.response = prevCall.response

WithoutCursor(resp) == [f \in DOMAIN resp \ {"cursor_start", "cursor_end"} |-> resp[f]]

\* C9 amended: KernelInfo, Inspect, IsComplete, CommInfo, History and Shutdown
\* return the same response for every content; Complete returns the same
\* response except cursor_start and cursor_end, which both equal the request's
\* cursor_pos (0 when it has none).
C9_FixedHandlersExceptCursor ==
  /\ (SameHandlerTwice /\ lastCall.handler # "complete") =>
        lastCall.response = prevCall.response
  /\ (SameHandlerTwice /\ lastCall.handler = "complete") =>
        WithoutCursor(lastCall.response) = WithoutCursor(prevCall.response)
  /\ lastCall.handler = "complete" =>
        LET pos == IF "cursor_pos" \in DOMAIN lastCall.content
                   THEN lastCall.content.cursor_pos ELSE 0
        IN /\ lastCall.response.cursor_start = pos
           /\ lastCall.response.cursor_end = pos

\* Two successive Inspect calls with different contents.
C9_Witness ==
  /\ SameHandlerTwice
  /\ lastCall.handler = "inspect"
  /\ lastCall.content # prevCall.content
  /\ lastCall.content.code # prevCall.content.code

UsableValues == {"available", "downloadable", "downloading"}

\* C10: an Execute returns error only for a failure of its own (the capability
\* absent at its start, its own availability answer of unavailable, or a
\* rejection of its own query, creation or read) and otherwise returns ok,
\* whatever the previous Execute returned; and an Execute answered unavailable
\* right after one answered unavailable fails with the same message.
C10_FailureScopedToRequest ==
  ExecuteDone =>
    /\ response.status \in {"ok", "error"}
    /\ response.status = "error" =>
         \/ fault = "absent" /\ ~capability
         \/ fault = "unavailable" /\ availability \in UnavailableValues
         \/ fault \in {"query", "create", "read"}
    /\ (capability /\ availability \in UsableValues /\ reader = "released"
        /\ fault = "none") => response.status = "ok"
    /\ (prevAvailability \in UnavailableValues /\ availability \in UnavailableValues) =>
         /\ prevResponse.status = "error"
         /\ response.status = "error"
         /\ response.evalue = prevResponse.evalue

\* An Execute that returned ok right after one that failed on an unavailable
\* model.
C10_Witness ==
  /\ ExecuteDone
  /\ prevResponse.status = "error"
  /\ prevAvailability = "unavailable"
  /\ response.status = "ok"
  /\ Len(events) > 0

\* C11: a send queries availability at most once, invokes the creation at most
\* once and submits the prompt at most once, each step only after the one
\* before it; a send that failed is finished and attempted nothing after the
\* step that failed.
C11_NoRetries ==
  /\ sendQueries <= 1
  /\ sendCreates <= 1
  /\ sendSubmits <= 1
  /\ (sendCreates > 0 \/ sendSubmits > 0) => sendQueries = 1
  /\ fault # "none" => pc = "idle"
  /\ fault = "absent" => (sendQueries = 0 /\ sendCreates = 0 /\ sendSubmits = 0)
  /\ fault \in {"unavailable", "query"} => (sendCreates = 0 /\ sendSubmits = 0)
  /\ fault = "create" =>
       (sendCreates = 1 /\ sendSubmits = 0 /\ session = sessionAtStart)
  /\ fault \in {"read", "callback"} => sendSubmits = 1

\* An Execute whose session creation rejected.
C11_Witness ==
  /\ ExecuteFailed
  /\ fault = "create"
  /\ sendQueries = 1
  /\ sendCreates = 1
  /\ sendSubmits = 0

\* C12: an Execute has no response while its send runs and exactly one, ok or
\* error, when it is done; an error event was published exactly when the
\* response is error, and then it is the last event, after every stdout event
\* of the request; an ok response follows stdout events only.
C12_OneResponseErrorLast ==
  /\ (host = "kernel" /\ pc # "idle") =>
        /\ response = NoResponse
        /\ SelectSeq(events, IsErrorEvent) = <<>>
  /\ ExecuteDone =>
        /\ response.status \in {"ok", "error"}
        /\ response.status = "ok" <=> result.kind = "returned"
        /\ response.status = "error" <=> Len(SelectSeq(events, IsErrorEvent)) = 1
        /\ response.status = "ok" <=> SelectSeq(events, IsErrorEvent) = <<>>
        /\ \A i \in 1..Len(events) :
              IsErrorEvent(events[i]) <=> (response.status = "error" /\ i = Len(events))
        /\ \A i \in 1..Len(events) :
              IsStreamEvent(events[i]) \/ IsErrorEvent(events[i])

\* An Execute whose stream failed after two deltas were published.
C12_Witness ==
  /\ ExecuteFailed
  /\ fault = "read"
  /\ Len(events) = 3
  /\ IsStreamEvent(events[1])
  /\ IsStreamEvent(events[2])
  /\ IsErrorEvent(events[3])

\* C14: every send that passes the capability test queries availability once
\* before anything else; a send that began with a handle and was answered
\* unavailable failed with the model-unavailable error, submitted no prompt
\* and left the handle as it was.
C14_AvailabilityBeforeHandle ==
  /\ (sends > 0 /\ availability # "absent") => sendQueries = 1
  /\ (sessionAtStart # NoSession /\ availability \in UnavailableValues) =>
        /\ SendThrew
        /\ result.err = ErrorOf("Chrome built-in AI model is not available.")
        /\ sendCreates = 0
        /\ sendSubmits = 0
        /\ reader = "none"
        /\ session = sessionAtStart

\* A send answered unavailable on a relay whose handle an earlier send set.
C14_Witness ==
  /\ SendThrew
  /\ sessionAtStart # NoSession
  /\ session = sessionAtStart
  /\ availability = "unavailable"
  /\ prevResult = "returned"

ExecutePending == host = "kernel" /\ pc # "idle"

\* C13: when every await eventually completes or fails and the stream ends,
\* every Execute in progress eventually is done with an ok or error response;
\* and as long as an await of it is pending, an Execute has no response and
\* has published no error (nothing but the completion of the await ends it).
C13_ReturnsWhenAwaitsComplete ==
  /\ ExecutePending ~> (ExecuteDone /\ response.status \in {"ok", "error"})
  /\ [](ExecutePending =>
          /\ response = NoResponse
          /\ result = NoResult
          /\ SelectSeq(events, IsErrorEvent) = <<>>)

\* An Execute that returned after a monitored creation and a stream of values.
C13_Witness ==
  /\ ExecuteDone
  /\ monitor
  /\ sendCreates = 1
  /\ Len(values) >= 2
  /\ response.status = "ok"

HasHandle == relay # "streamText"

\* C15: when sends overlap on a relay with a handle field, two calls that are
\* both awaiting a creation have each invoked the creation operation, for
\* different handles, while the field is still unset; each creation that
\* resolves overwrites the field with its own handle, whatever the field
\* held, and its call submits its prompt to that handle.
C15_OverlapCreatesTwice ==
  /\ [](HasHandle =>
         \A i, j \in Callers :
           (i # j /\ calls[i].pc = "create" /\ calls[j].pc = "create") =>
              /\ session = NoSession
              /\ createCalls >= 2
              /\ calls[i].pending # calls[j].pending)
  /\ [][HasHandle =>
         \A i \in Callers :
           (calls[i].pc = "create" /\ calls'[i].pc = "read") =>
              /\ session' = calls[i].pending
              /\ calls'[i].used = calls[i].pending]_vars

\* Two overlapping calls whose prompts ran on different sessions, the field
\* holding the handle of the creation that resolved last.
C15_Witness ==
  /\ HasHandle
  /\ calls[1].outcome = "returned"
  /\ calls[2].outcome = "returned"
  /\ calls[1].used = 2
  /\ calls[2].used = 1
  /\ session = 2
  /\ createCalls = 2

====
